---- MODULE Spec2Model ----
(***************************************************************************)
(* Model of kedro/framework/cli/utils.py: the CommandCollection router     *)
(* (merge of same-named groups, deduplication of commands, lazy loading of *)
(* plugin entry points in main/_load_plugins) and its helpers.             *)
(*                                                                         *)
(* Command names and plugin names are sequences of one-character strings,  *)
(* so that Python's substring test ("a in b") is computed, not assumed.    *)
(* Group names, titles and help texts are plain strings.                   *)
(*                                                                         *)
(* Objects that the code mutates in place are kept in heaps:               *)
(*   group[g]  a click.Group object (name, help, commands), g a group id;  *)
(*             the same id listed twice is the same object listed twice;   *)
(*   coll[c]   a click.CommandCollection built by                          *)
(*             _merge_same_name_collections (name, sources, help,          *)
(*             callback), c its index.                                     *)
(* The module's functions that work on text (split_node_names,             *)
(* _suggest_cli_command) take and give sequences of one-character strings. *)
(* A command object is identified by the group that defines it and its     *)
(* name: the code never moves a command from one group to another, so the  *)
(* keys of group[g].commands stand for the dict.                           *)
(***************************************************************************)
EXTENDS Integers, Sequences, FiniteSets, TLC

VARIABLES
    group,        \* heap of click.Group objects: gid -> [name, help, commands]
    group0,       \* history: the group objects as they were given to the constructor
    args_groups,  \* __init__'s *groups: sequence of [title, cli_list]
    lazy_groups,  \* plugin_entry_points: ordered mapping, a sequence of [name, ok, commands]
    coll,         \* heap of merged click.CommandCollection objects
    groups,       \* self.groups: sequence of [title, colls]
    sources,      \* self.sources: sequence of [kind, id]
    help,         \* self.help
    pc,           \* position of the process
    args,         \* main's args: [kind |-> "none"] or [kind |-> "list", argv |-> <<...>>]
    ep_idx,       \* position of the "for ep in self.lazy_groups.values()" loop
    invocations,  \* number of calls of main so far
    resolved,     \* the command the last resolve_command returned
    attempts,     \* history: per lazy handle, the number of calls of entry_point.load()
    loadLog,      \* history: the load attempts of the current call of main, [phase, idx, listed]
    fn_pc,        \* position of a call of one of the module's functions: "idle", "called", "returned"
    to_split,     \* split_node_names: its argument, a sequence of characters
    result,       \* split_node_names: the list it returns
    original_command_name,   \* _suggest_cli_command: the name that was typed
    existing_command_names,  \* _suggest_cli_command: the names to choose from, a sequence
    suggestion,   \* _suggest_cli_command: the text it returns
    default_map,  \* _config_file_callback: ctx.default_map, [none, items]
    default_map0, \* history: ctx.default_map before the call
    value,        \* _config_file_callback: its argument value, "" when no file is given
    config_file,  \* the file at value: [has_section, items], items the (key, value) pairs
                  \* of the section ctx.info_name in the order of the file
    raised,       \* _config_file_callback: the exception it raised, [type, message]
    returned,     \* _config_file_callback: the value it returned
    verbose_exists \* KedroCliError.VERBOSE_EXISTS

split_vars == << to_split, result >>

suggest_vars == << original_command_name, existing_command_names, suggestion >>

config_vars == << default_map, default_map0, value, config_file, raised, returned,
                  verbose_exists >>

\* the variables of the calls of the module's functions
helper_vars == << fn_pc, split_vars, suggest_vars, config_vars >>

\* the variables of the router
router_vars == << group, group0, args_groups, lazy_groups, coll, groups, sources, help, pc,
                  args, ep_idx, invocations, resolved, attempts, loadLog >>

vars == << group, group0, args_groups, lazy_groups, coll, groups, sources, help, pc,
           args, ep_idx, invocations, resolved, attempts, loadLog,
           fn_pc, to_split, result,
           original_command_name, existing_command_names, suggestion,
           default_map, default_map0, value, config_file, raised, returned, verbose_exists >>

----------------------------------------------------------------------------
(* Bounds of the model *)

MaxGroups == 2        \* distinct eager click.Group objects (constructor alone)
MaxLen == 3           \* groups listed to the constructor, over all titles (constructor alone)
MaxEager == 1         \* groups listed to the constructor of a router that is then called
MaxMerge == 3         \* groups listed to the constructor (merge of helps)
MaxPlugins == 2       \* lazy plugin handles
MaxInvocations == 2   \* calls of main within one process
MaxSplitLen == 4      \* characters of split_node_names' argument
MaxNames == 4         \* names given to _suggest_cli_command to choose from
MaxKeys == 3          \* keys of the config file's section

----------------------------------------------------------------------------
(* Names *)

Run == << "r", "u", "n" >>
Viz == << "v", "i", "z" >>
Docker == << "d", "o", "c", "k", "e", "r" >>
DockerBuild == << "d", "o", "c", "k", "e", "r", "-", "b", "u", "i", "l", "d" >>
KedroViz == << "k", "e", "d", "r", "o", "-", "v", "i", "z" >>
KedroDocker == << "k", "e", "d", "r", "o", "-", "d", "o", "c", "k", "e", "r" >>
VizTools == << "v", "i", "z", "-", "t", "o", "o", "l", "s" >>

CmdNames == { Run, Viz, DockerBuild }
ArgNames == { Run, Viz, Docker, DockerBuild }
PluginNames == { KedroViz, KedroDocker, VizTools }
GroupNames == { "cli", "project" }
Helps == { "", "H1", "H2" }
Titles == << "Global commands", "Project specific commands" >>

----------------------------------------------------------------------------
(* Sequence helpers *)

Range(s) == { s[i] : i \in 1..Len(s) }

Reverse(s) == [ i \in 1..Len(s) |-> s[Len(s) + 1 - i] ]

RECURSIVE Concat(_)
Concat(ss) == IF ss = << >> THEN << >> ELSE Head(ss) \o Concat(Tail(ss))

\* all sequences over S of length lo..hi
SeqsOf(S, lo, hi) == UNION { [ 1..n -> S ] : n \in lo..hi }

RECURSIVE Join(_, _)
\* str.join: sep.join(strs)
Join(sep, strs) ==
    IF strs = << >> THEN ""
    ELSE IF Len(strs) = 1 THEN strs[1]
    ELSE strs[1] \o sep \o Join(sep, Tail(strs))

RECURSIVE FirstSeen(_, _)
\* the distinct elements of s in the order each is first seen (dict insertion order)
FirstSeen(s, acc) ==
    IF s = << >> THEN acc
    ELSE FirstSeen(Tail(s), IF Head(s) \in Range(acc) THEN acc ELSE Append(acc, Head(s)))

----------------------------------------------------------------------------
(* _partial_match *)

\* Python's "a in b" on strings
IsSubstring(a, b) ==
    \E i \in 0..(Len(b) - Len(a)) : SubSeq(b, i + 1, i + Len(a)) = a

\* a faulty variant of NameMatches: only the command name's part before its first "-"
\* has to be in the plugin name
NameMatchesStem(cmd_name, plugin_name) ==
    LET dashes == { i \in 1..Len(cmd_name) : cmd_name[i] = "-" }
        cut == IF dashes = {} THEN Len(cmd_name)
               ELSE (CHOOSE i \in dashes : \A j \in dashes : i <= j) - 1
    IN  IsSubstring(SubSeq(cmd_name, 1, cut), plugin_name)

\* "if command_name in plugin_name"
NameMatches(cmd_name, plugin_name) == IsSubstring(cmd_name, plugin_name)

\* a faulty variant of partial_match: the last match instead of the first
partial_match_last(plugin_names, cmd_name) ==
    LET hits == { i \in 1..Len(plugin_names) : NameMatches(cmd_name, plugin_names[i]) }
    IN  IF hits = {} THEN 0 ELSE CHOOSE i \in hits : \A j \in hits : j <= i

\* The index in plugin_names of the first name that contains cmd_name, 0 for
\* None.  (Plugin names are non-empty, so "if part_match:" is "is not None".)
partial_match(plugin_names, cmd_name) ==
    LET hits == { i \in 1..Len(plugin_names) : NameMatches(cmd_name, plugin_names[i]) }
    IN  IF hits = {} THEN 0 ELSE CHOOSE i \in hits : \A j \in hits : i <= j

----------------------------------------------------------------------------
(* CommandCollection._merge_same_name_collections *)

\* a faulty variant of HelpSeparator: a single newline
HelpSeparatorSingle == "\n"

\* the separator of "\n\n".join(helps[group_name])
HelpSeparator == "\n\n"

\* helps[group_name]: the non-empty helps of the groups of that name, in order
HelpsOf(cli_list, g, group_name) ==
    LET named == SelectSeq(cli_list, LAMBDA x : g[x].name = group_name /\ g[x].help # "")
    IN  [ i \in 1..Len(named) |-> g[named[i]].help ]

\* named_groups[group_name]
NamedGroups(cli_list, g, group_name) ==
    SelectSeq(cli_list, LAMBDA x : g[x].name = group_name)

\* a faulty variant of merge_same_name_collections: callback and params of the
\* last group of the name
merge_same_name_collections_last(cli_list, g) ==
    LET names == FirstSeen([ i \in 1..Len(cli_list) |-> g[cli_list[i]].name ], << >>)
    IN  [ i \in 1..Len(names) |->
            [ name     |-> names[i],
              sources  |-> NamedGroups(cli_list, g, names[i]),
              help     |-> Join(HelpSeparator, HelpsOf(cli_list, g, names[i])),
              callback |-> NamedGroups(cli_list, g, names[i])
                               [Len(NamedGroups(cli_list, g, names[i]))] ] ]

\* the list of click.CommandCollection objects the method returns; callback
\* stands for callback and params, both taken from cli_list[0]
merge_same_name_collections(cli_list, g) ==
    LET names == FirstSeen([ i \in 1..Len(cli_list) |-> g[cli_list[i]].name ], << >>)
    IN  [ i \in 1..Len(names) |->
            [ name     |-> names[i],
              sources  |-> NamedGroups(cli_list, g, names[i]),
              help     |-> Join(HelpSeparator, HelpsOf(cli_list, g, names[i])),
              callback |-> NamedGroups(cli_list, g, names[i])[1] ] ]

----------------------------------------------------------------------------
(* CommandCollection._dedupe_commands *)

\* a faulty variant of SeenUpdate: "=" for "|="
SeenAssign(seen_names, keys) == keys

\* seen_names |= cmd_group.commands.keys()
SeenUpdate(seen_names, keys) == seen_names \cup keys

\* a faulty variant of KeepCommands: nothing is filtered
KeepAll(commands, seen_names) == commands

\* { cmd_name: cmd for ... if cmd_name not in seen_names }
KeepCommands(commands, seen_names) == { n \in commands : n \notin seen_names }

\* a faulty variant of VisitOrder: the groups of a collection in listing order
VisitOrderForward(cli_collections, c) ==
    Concat([ i \in 1..Len(cli_collections) |-> c[Reverse(cli_collections)[i]].sources ])

\* the group objects in the order the two reversed loops visit them
VisitOrder(cli_collections, c) ==
    Concat([ i \in 1..Len(cli_collections) |->
               Reverse(c[Reverse(cli_collections)[i]].sources) ])

RECURSIVE DedupeWalk(_, _, _)
\* the body of the reversed loops over the groups still to visit: each visit
\* rewrites the visited object's commands in place
DedupeWalk(visit, seen_names, g) ==
    IF visit = << >> THEN g
    ELSE LET x == Head(visit)
             kept == KeepCommands(g[x].commands, seen_names)
         IN  DedupeWalk(Tail(visit), SeenUpdate(seen_names, kept),
                        [ g EXCEPT ![x].commands = kept ])

\* a faulty variant of RemoveEmpty: every group is kept
RemoveNothing(srcs, g) == srcs

\* [cmd_group for cmd_group in cli_collection.sources if cmd_group.commands]
RemoveEmpty(srcs, g) == SelectSeq(srcs, LAMBDA x : g[x].commands # {})

\* _dedupe_commands(cli_collections): the two heaps after the call
dedupe_commands(cli_collections, c, g) ==
    LET g2 == DedupeWalk(VisitOrder(cli_collections, c), {}, g)
        c2 == [ i \in 1..Len(c) |->
                  IF i \in Range(cli_collections)
                  THEN [ c[i] EXCEPT !.sources = RemoveEmpty(c[i].sources, g2) ]
                  ELSE c[i] ]
    IN  [ coll |-> c2, group |-> g2 ]


----------------------------------------------------------------------------
(* click.CommandCollection / click.Group, as the router calls them.  An    *)
(* entry of self.sources is [kind |-> "collection", id |-> c] (a merged    *)
(* collection), [kind |-> "plugin", id |-> i] (the click.Group that lazy   *)
(* handle i loaded) or [kind |-> "none", id |-> 0] (None).                 *)

NoneSource == [ kind |-> "none", id |-> 0 ]

\* source.list_commands(ctx) of one entry of self.sources
SourceCommands(src, c, g, lazy) ==
    CASE src.kind = "collection" ->
             UNION { g[c[src.id].sources[i]].commands : i \in 1..Len(c[src.id].sources) }
      [] src.kind = "plugin" -> lazy[src.id].commands
      [] OTHER -> {}

\* self.list_commands(None) raises AttributeError: None has no list_commands
ListCommandsRaises(srcs) == \E i \in 1..Len(srcs) : srcs[i].kind = "none"

\* self.list_commands(None): the command names of every source
list_commands(srcs, c, g, lazy) ==
    UNION { SourceCommands(srcs[i], c, g, lazy) : i \in 1..Len(srcs) }

\* the sources get_command walks before it returns: up to the first one that has
\* the command, all of them when none has
WalkedSources(srcs, c, g, lazy, cmd_name) ==
    LET hits == { i \in 1..Len(srcs) : cmd_name \in SourceCommands(srcs[i], c, g, lazy) }
    IN  IF hits = {} THEN Len(srcs) ELSE CHOOSE i \in hits : \A j \in hits : i <= j

\* self.get_command(ctx, cmd_name) raises AttributeError: it reaches a None source
GetCommandRaises(srcs, c, g, lazy, cmd_name) ==
    \E i \in 1..WalkedSources(srcs, c, g, lazy, cmd_name) : srcs[i].kind = "none"

NoCommand == [ owner |-> "none", id |-> 0, name |-> << >> ]

\* self.get_command(ctx, cmd_name): the command of the first source, and in it of
\* the first group, that has the name; NoCommand for None
get_command(srcs, c, g, lazy, cmd_name) ==
    IF cmd_name \notin list_commands(srcs, c, g, lazy) THEN NoCommand
    ELSE LET src == srcs[WalkedSources(srcs, c, g, lazy, cmd_name)]
         IN  IF src.kind = "plugin"
             THEN [ owner |-> "plugin", id |-> src.id, name |-> cmd_name ]
             ELSE LET inner == c[src.id].sources
                      k == CHOOSE i \in 1..Len(inner) :
                               /\ cmd_name \in g[inner[i]].commands
                               /\ \A j \in 1..(i - 1) : cmd_name \notin g[inner[j]].commands
                  IN  [ owner |-> "group", id |-> inner[k], name |-> cmd_name ]

\* format_commands: the (title, group name, command names) sections written
format_commands(grps, c, g) ==
    LET secs(t) == SelectSeq(grps[t].colls, LAMBDA x : c[x].sources # << >>)
    IN  Concat([ t \in 1..Len(grps) |->
                   [ i \in 1..Len(secs(t)) |->
                       [ title    |-> grps[t].title,
                         name     |-> c[secs(t)[i]].name,
                         commands |-> SourceCommands([ kind |-> "collection", id |-> secs(t)[i] ],
                                                     c, g, << >>) ] ] ])

----------------------------------------------------------------------------
(* CommandCollection.__init__ *)

\* the merged collections of every title, in order
MergedPerTitle(ag, g) ==
    [ t \in 1..Len(ag) |-> merge_same_name_collections(ag[t].cli_list, g) ]

\* self.groups: each title with the indices of its merged collections
SelfGroups(ag, g) ==
    LET m == MergedPerTitle(ag, g)
        off(t) == Len(Concat(SubSeq(m, 1, t - 1)))
    IN  [ t \in 1..Len(ag) |->
            [ title |-> ag[t].title,
              colls |-> [ i \in 1..Len(m[t]) |-> off(t) + i ] ] ]

\* help_texts: the non-empty helps of the groups of every merged collection
HelpTexts(c, g) ==
    LET all == Concat([ i \in 1..Len(c) |-> c[i].sources ])
        with == SelectSeq(all, LAMBDA x : g[x].help # "")
    IN  [ i \in 1..Len(with) |-> g[with[i]].help ]

Construct ==
    /\ pc = "new"
    /\ LET c0 == Concat(MergedPerTitle(args_groups, group))
           srcs == [ i \in 1..Len(c0) |-> i ]
           d == dedupe_commands(srcs, c0, group)
       IN  /\ groups' = SelfGroups(args_groups, group)
           /\ coll' = d.coll
           /\ group' = d.group
           /\ sources' = [ i \in 1..Len(c0) |-> [ kind |-> "collection", id |-> i ] ]
           /\ help' = Join("\n\n", HelpTexts(c0, group))
           \* self.params = sources[0].params raises IndexError on an empty list
           /\ pc' = IF c0 = << >> THEN "init_error" ELSE "ready"
    /\ UNCHANGED << helper_vars, group0, args_groups, lazy_groups, args, ep_idx, invocations, resolved,
                   attempts, loadLog >>


----------------------------------------------------------------------------
(* _safe_load_entry_point and CommandCollection.add_source *)

\* _safe_load_entry_point(entry_point): the loaded click.Group, or None after
\* the warning when entry_point.load() raises
safe_load_entry_point(i, lazy) ==
    IF lazy[i].ok THEN [ kind |-> "plugin", id |-> i ] ELSE NoneSource

\* self.add_source(loaded_ep): click appends whatever it is given
add_source(srcs, loaded_ep) == Append(srcs, loaded_ep)

\* the history variables after a call of entry_point.load() on handle i;
\* listed: whether args[0] was a listed command when the load was called
Logged(phase, i) ==
    /\ attempts' = [ attempts EXCEPT ![i] = @ + 1 ]
    /\ loadLog' = Append(loadLog,
                         [ phase |-> phase, idx |-> i,
                           listed |-> args.argv[1] \in list_commands(sources, coll, group, lazy_groups) ])

----------------------------------------------------------------------------
(* CommandCollection.main and _load_plugins *)

command_name == args.argv[1]

Listed(srcs) == list_commands(srcs, coll, group, lazy_groups)

\* a faulty variant of NeedsPlugins: plugins are loaded on every call
NeedsPluginsAlways(a, srcs) == TRUE

\* "args[0] not in self.list_commands(None)"
NeedsPlugins(a, srcs) == a.argv[1] \notin Listed(srcs)

\* main up to the call of _load_plugins or of super().main
MainCall ==
    /\ pc = "ready"
    /\ invocations < MaxInvocations
    /\ \E a \in { [ kind |-> "none", argv |-> << >> ] }
                \cup { [ kind |-> "list", argv |-> v ] : v \in SeqsOf(ArgNames, 0, 1) } :
          /\ args' = a
          /\ pc' = IF a.kind = "none" THEN "super_main"
                   ELSE IF a.argv = << >> THEN "crashed"             \* args[0]: IndexError
                   ELSE IF ListCommandsRaises(sources) THEN "crashed"
                   ELSE IF NeedsPlugins(a, sources) THEN "load_plugins"
                   ELSE "super_main"
    /\ invocations' = invocations + 1
    /\ loadLog' = << >>
    /\ ep_idx' = 0
    /\ UNCHANGED << helper_vars, group, group0, args_groups, lazy_groups, coll, groups, sources, help,
                    resolved, attempts >>

\* "if command_name in self.list_commands(None)"
FoundAfterLoad(srcs) == command_name \in Listed(srcs)

\* _load_plugins, the partial match: lines 215-222
PartialMatchLoad ==
    /\ pc = "load_plugins"
    /\ LET ep_names == [ i \in 1..Len(lazy_groups) |-> lazy_groups[i].name ]
           part_match == partial_match(ep_names, command_name)
       IN  IF part_match = 0
           THEN /\ pc' = "load_all"
                /\ UNCHANGED << sources, attempts, loadLog >>
           ELSE LET loaded_ep == safe_load_entry_point(part_match, lazy_groups)
                    srcs == add_source(sources, loaded_ep)
                IN  /\ Logged("partial", part_match)
                    /\ sources' = srcs
                    /\ pc' = IF ListCommandsRaises(srcs) THEN "crashed"
                             ELSE IF FoundAfterLoad(srcs) THEN "super_main"
                             ELSE "load_all"
    /\ ep_idx' = 1
    /\ UNCHANGED << helper_vars, group, group0, args_groups, lazy_groups, coll, groups, help, args,
                    invocations, resolved >>

\* a faulty variant of FoundInLoop: the loop never stops early
NeverFoundInLoop(srcs) == FALSE

\* the loop's "if command_name in self.list_commands(None): return"
FoundInLoop(srcs) == command_name \in Listed(srcs)

\* the handle the i-th iteration of "for ep in self.lazy_groups.values()" takes
NextEntryPoint(i, lazy) == i

\* _load_plugins, one iteration of the loop over all handles: lines 224-228
LoadAllStep ==
    /\ pc = "load_all"
    /\ ep_idx <= Len(lazy_groups)
    /\ IF ListCommandsRaises(sources)
       THEN pc' = "crashed" /\ UNCHANGED << sources, ep_idx, attempts, loadLog >>
       ELSE IF FoundInLoop(sources)
       THEN pc' = "super_main" /\ UNCHANGED << sources, ep_idx, attempts, loadLog >>
       ELSE LET ep == NextEntryPoint(ep_idx, lazy_groups)
                loaded_ep == safe_load_entry_point(ep, lazy_groups)
            IN  /\ Logged("all", ep)
                /\ ep_idx' = ep_idx + 1
                /\ pc' = "load_all"
                /\ sources' = add_source(sources, loaded_ep)
    /\ UNCHANGED << helper_vars, group, group0, args_groups, lazy_groups, coll, groups, help, args,
                    invocations, resolved >>

\* _load_plugins, the loop is exhausted: line 229
LoadAllExit ==
    /\ pc = "load_all"
    /\ ep_idx > Len(lazy_groups)
    /\ pc' = "super_main"
    /\ UNCHANGED << helper_vars, group, group0, args_groups, lazy_groups, coll, groups, sources, help, args,
                    ep_idx, invocations, resolved, attempts, loadLog >>

\* super().main: click parses the arguments (sys.argv[1:] when args is None),
\* shows the help when there are none, and else calls resolve_command, which
\* ends in the command's invocation or in the usage error with the suggestion
SuperMain ==
    /\ pc = "super_main"
    /\ \E argv \in IF args.kind = "none" THEN SeqsOf(ArgNames, 0, 1) ELSE { args.argv } :
          IF argv = << >>
          THEN pc' = "help" /\ resolved' = NoCommand
          ELSE IF GetCommandRaises(sources, coll, group, lazy_groups, argv[1])
          THEN pc' = "crashed" /\ resolved' = NoCommand
          ELSE /\ resolved' = get_command(sources, coll, group, lazy_groups, argv[1])
               /\ pc' = IF resolved' = NoCommand
                        THEN IF ListCommandsRaises(sources) THEN "crashed" ELSE "usage_error"
                        ELSE "dispatched"
    /\ UNCHANGED << helper_vars, group, group0, args_groups, lazy_groups, coll, groups, sources, help, args,
                    ep_idx, invocations, attempts, loadLog >>

\* main is over (it returned, or its caller caught the usage error): the
\* call's locals are gone and the router is ready for another call
Return ==
    /\ pc \in { "help", "dispatched", "usage_error" }
    /\ pc' = "ready"
    /\ args' = [ kind |-> "none", argv |-> << >> ]
    /\ ep_idx' = 0
    /\ resolved' = NoCommand
    /\ loadLog' = << >>
    /\ UNCHANGED << helper_vars, group, group0, args_groups, lazy_groups, coll, groups, sources, help,
                    invocations, attempts >>

----------------------------------------------------------------------------
(* Inputs *)

\* the listings of n group objects, each listed at least once, an object
\* numbered by its first place in the listing
Listings(n, maxLen) ==
    { f \in SeqsOf(1..n, n, maxLen) :
        /\ Range(f) = 1..n
        /\ \A i \in 1..Len(f) : \A x \in 1..(f[i] - 1) : \E j \in 1..(i - 1) : f[j] = x }

\* the constructor's arguments: the two titles of the kedro CLI, the listing
\* cut in two at any place
ArgsGroups(f) ==
    { << [ title |-> Titles[1], cli_list |-> SubSeq(f, 1, k) ],
         [ title |-> Titles[2], cli_list |-> SubSeq(f, k + 1, Len(f)) ] >> : k \in 0..Len(f) }

\* the lazy handles: distinct plugin names in any order; a handle that fails
\* to load exposes nothing
PluginCmdSets == { { Viz }, { DockerBuild }, { Run, Viz } }

LazyGroups ==
    { l \in SeqsOf([ name : PluginNames, ok : BOOLEAN, commands : PluginCmdSets \cup { {} } ],
                   0, MaxPlugins) :
        /\ \A i, j \in 1..Len(l) : i # j => l[i].name # l[j].name
        /\ \A i \in 1..Len(l) : l[i].ok <=> l[i].commands # {} }

\* no function of the module is being called
SplitIdle == to_split = << >> /\ result = << >>

SuggestIdle ==
    /\ original_command_name = << >>
    /\ existing_command_names = << >>
    /\ suggestion = << >>

NoException == [ type |-> "none", message |-> << >> ]

ConfigIdle ==
    /\ default_map = [ none |-> TRUE, items |-> << >> ]
    /\ default_map0 = default_map
    /\ value = ""
    /\ config_file = [ has_section |-> FALSE, items |-> << >> ]
    /\ raised = NoException
    /\ returned = ""
    /\ verbose_exists = TRUE

HelpersIdle ==
    /\ fn_pc = "idle"
    /\ SplitIdle
    /\ SuggestIdle
    /\ ConfigIdle

InitRest ==
    /\ group0 = group
    /\ coll = << >>
    /\ groups = << >>
    /\ sources = << >>
    /\ help = ""
    /\ pc = "new"
    /\ args = [ kind |-> "none", argv |-> << >> ]
    /\ ep_idx = 0
    /\ invocations = 0
    /\ resolved = NoCommand
    /\ attempts = [ i \in 1..Len(lazy_groups) |-> 0 ]
    /\ loadLog = << >>

\* the router of a process: few eager groups, any lazy handles
EagerCmdSets == { {}, { Run }, { Run, Viz } }

Init ==
    /\ \E n \in 0..MaxEager : \E f \in Listings(n, MaxEager) :
          /\ group \in [ 1..n -> [ name : { "cli" }, help : { "" }, commands : EagerCmdSets ] ]
          /\ args_groups \in ArgsGroups(f)
    /\ lazy_groups \in LazyGroups
    /\ InitRest
    /\ HelpersIdle

Next ==
    \/ Construct
    \/ MainCall
    \/ PartialMatchLoad
    \/ LoadAllStep
    \/ LoadAllExit
    \/ SuperMain
    \/ Return

Spec == Init /\ [][Next]_vars

\* the constructor alone, on any listing of groups
InitCtor ==
    /\ \E n \in 0..MaxGroups : \E f \in Listings(n, MaxLen) :
          /\ group \in [ 1..n -> [ name : GroupNames, help : { "" }, commands : SUBSET CmdNames ] ]
          /\ args_groups \in ArgsGroups(f)
    /\ lazy_groups = << >>
    /\ InitRest
    /\ HelpersIdle

SpecCtor == InitCtor /\ [][Construct]_vars


\* the constructor on groups that have help texts
InitMerge ==
    /\ \E n \in 1..MaxMerge : \E f \in Listings(n, MaxMerge) :
          /\ group \in [ 1..n -> [ name : GroupNames, help : Helps, commands : { {}, { Run } } ] ]
          /\ args_groups \in ArgsGroups(f)
    /\ lazy_groups = << >>
    /\ InitRest
    /\ HelpersIdle

SpecMerge == InitMerge /\ [][Construct]_vars

----------------------------------------------------------------------------
(* split_node_names *)

\* the characters of the arguments: a letter, the comma, the brackets, a blank
SplitChars == { "a", ",", "[", "]", " " }

\* "f([a,b]) -> [c],g"
DefaultNodeNames ==
    << "f", "(", "[", "a", ",", "b", "]", ")", " ", "-", ">", " ", "[", "c", "]", ",", "g" >>

Whitespace == { " " }

RECURSIVE LStrip(_)
LStrip(str) ==
    IF str # << >> /\ Head(str) \in Whitespace THEN LStrip(Tail(str)) ELSE str

\* str.strip()
Strip(str) == Reverse(LStrip(Reverse(LStrip(str))))

\* match_state after "if char == '[' ... elif char == ']' ..."
MatchState(match_state, char) ==
    IF char = "[" THEN match_state + 1
    ELSE IF char = "]" THEN match_state - 1
    ELSE match_state

RECURSIVE SplitLoop(_, _, _, _)
\* the loop "for char in to_split + ','" over the characters still to read
SplitLoop(chars, argument, match_state, res) ==
    IF chars = << >> THEN res
    ELSE LET char == Head(chars)
             ms == MatchState(match_state, char)
         IN  IF char = "," /\ ms = 0 /\ argument # << >>
             THEN SplitLoop(Tail(chars), << >>, ms, Append(res, Strip(argument)))
             ELSE SplitLoop(Tail(chars), Append(argument, char), ms, res)

split_node_names(str) == SplitLoop(str \o << "," >>, << >>, 0, << >>)

\* a call of split_node_names(ctx, param, to_split)
SplitNodeNames ==
    /\ fn_pc = "called"
    /\ result' = split_node_names(to_split)
    /\ fn_pc' = "returned"
    /\ UNCHANGED << router_vars, suggest_vars, config_vars, to_split >>

\* a router that is not constructed
NoRouter ==
    /\ group = << >>
    /\ args_groups = << >>
    /\ lazy_groups = << >>
    /\ InitRest

\* split_node_names on any short text and on the default node names
InitSplit ==
    /\ NoRouter
    /\ fn_pc = "called"
    /\ to_split \in SeqsOf(SplitChars, 0, MaxSplitLen) \cup { DefaultNodeNames }
    /\ result = << >>
    /\ SuggestIdle
    /\ ConfigIdle

SpecSplit == InitSplit /\ [][SplitNodeNames]_vars

----------------------------------------------------------------------------
(* _suggest_cli_command, with difflib.get_close_matches and textwrap.indent *)
(* as it calls them                                                         *)

MAX_SUGGESTIONS == 3

\* CUTOFF = 0.5, as the fraction 1/2
CUTOFF == << 1, 2 >>

\* the characters of command names, in the order of their code points
CodeOrder ==
    << "-", "_", "a", "b", "c", "d", "e", "f", "g", "h", "i", "j", "k",
       "l", "m", "n", "o", "p", "q", "r", "s", "t", "u", "v", "w", "x", "y", "z" >>

Ord(char) == CHOOSE i \in 1..Len(CodeOrder) : CodeOrder[i] = char

RECURSIVE StrLess(_, _)
\* s < t on Python strings
StrLess(s, t) ==
    IF t = << >> THEN FALSE
    ELSE IF s = << >> THEN TRUE
    ELSE IF Head(s) = Head(t) THEN StrLess(Tail(s), Tail(t))
    ELSE Ord(Head(s)) < Ord(Head(t))

\* SequenceMatcher.find_longest_match without junk: of the longest blocks
\* a[i:i+k] == b[j:j+k] the one that starts first in a, and of those the one
\* that starts first in b; << 1, 1, 0 >> when no character matches
LongestMatch(a, b) ==
    LET blocks == { m \in (1..Len(a)) \X (1..Len(b)) \X (1..Len(a)) :
                      /\ m[1] + m[3] - 1 <= Len(a)
                      /\ m[2] + m[3] - 1 <= Len(b)
                      /\ SubSeq(a, m[1], m[1] + m[3] - 1) = SubSeq(b, m[2], m[2] + m[3] - 1) }
        Better(m, n) == \/ m[3] > n[3]
                        \/ m[3] = n[3] /\ m[1] < n[1]
                        \/ m[3] = n[3] /\ m[1] = n[1] /\ m[2] <= n[2]
    IN  IF blocks = {} THEN << 1, 1, 0 >>
        ELSE CHOOSE m \in blocks : \A n \in blocks : Better(m, n)

RECURSIVE MatchingSize(_, _)
\* the sum of the sizes of SequenceMatcher(None, a, b).get_matching_blocks():
\* the longest block, then the same to its left and to its right
MatchingSize(a, b) ==
    LET m == LongestMatch(a, b)
    IN  IF m[3] = 0 THEN 0
        ELSE m[3] + MatchingSize(SubSeq(a, 1, m[1] - 1), SubSeq(b, 1, m[2] - 1))
                  + MatchingSize(SubSeq(a, m[1] + m[3], Len(a)), SubSeq(b, m[2] + m[3], Len(b)))

\* SequenceMatcher.ratio() = 2.0 * matches / (len(a) + len(b)) as a fraction,
\* 1.0 for two empty strings; seq1 is the possibility, seq2 the word
Ratio(x, word) ==
    IF Len(x) + Len(word) = 0 THEN << 1, 1 >>
    ELSE << 2 * MatchingSize(x, word), Len(x) + Len(word) >>

\* p >= q and p > q on fractions with positive denominators
FracGeq(p, q) == p[1] * q[2] >= q[1] * p[2]

FracGreater(p, q) == p[1] * q[2] > q[1] * p[2]

\* difflib.get_close_matches(word, possibilities, n, cutoff): the
\* possibilities of ratio >= cutoff (real_quick_ratio and quick_ratio are
\* upper bounds of ratio), the n largest by (ratio, string), largest first
get_close_matches(word, possibilities, n, cutoff) ==
    LET close == { i \in 1..Len(possibilities) : FracGeq(Ratio(possibilities[i], word), cutoff) }
        Before(i, j) ==
            \/ FracGreater(Ratio(possibilities[i], word), Ratio(possibilities[j], word))
            \/ /\ Ratio(possibilities[i], word) = Ratio(possibilities[j], word)
               /\ \/ StrLess(possibilities[j], possibilities[i])
                  \/ possibilities[i] = possibilities[j] /\ i < j
        rank(i) == 1 + Cardinality({ j \in close : Before(j, i) })
        size == IF Cardinality(close) < n THEN Cardinality(close) ELSE n
    IN  [ k \in 1..size |-> possibilities[CHOOSE i \in close : rank(i) = k] ]

RECURSIVE JoinChars(_, _)
\* sep.join(strs) on sequences of characters
JoinChars(sep, strs) ==
    IF strs = << >> THEN << >>
    ELSE IF Len(strs) = 1 THEN strs[1]
    ELSE strs[1] \o sep \o JoinChars(sep, Tail(strs))

RECURSIVE SplitLinesKeepEnds(_, _)
\* text.splitlines(True): the lines with their "\n", line the one being read
SplitLinesKeepEnds(text, line) ==
    IF text = << >> THEN IF line = << >> THEN << >> ELSE << line >>
    ELSE IF Head(text) = "\n"
         THEN << Append(line, "\n") >> \o SplitLinesKeepEnds(Tail(text), << >>)
         ELSE SplitLinesKeepEnds(Tail(text), Append(line, Head(text)))

\* textwrap.indent(text, prefix): prefix before every line that is not only
\* whitespace
Indent(text, prefix) ==
    LET lines == SplitLinesKeepEnds(text, << >>)
    IN  Concat([ i \in 1..Len(lines) |->
                   IF \E k \in 1..Len(lines[i]) : lines[i][k] \notin { " ", "\n" }
                   THEN prefix \o lines[i]
                   ELSE lines[i] ])

\* "\n\nDid you mean this?"
HeaderOne ==
    << "\n", "\n", "D", "i", "d", " ", "y", "o", "u", " ", "m",
       "e", "a", "n", " ", "t", "h", "i", "s", "?" >>

\* "\n\nDid you mean one of these?\n"
HeaderMany ==
    << "\n", "\n", "D", "i", "d", " ", "y", "o", "u", " ", "m",
       "e", "a", "n", " ", "o", "n", "e", " ", "o", "f",
       " ", "t", "h", "e", "s", "e", "?", "\n" >>

\* " " * 4
Prefix == << " ", " ", " ", " " >>

suggest_cli_command(name, existing) ==
    LET matches == get_close_matches(name, existing, MAX_SUGGESTIONS, CUTOFF)
    IN  IF matches = << >> THEN << >>
        ELSE (IF Len(matches) = 1 THEN HeaderOne ELSE HeaderMany)
                 \o Indent(JoinChars(<< "\n" >>, matches), Prefix)

\* a call of _suggest_cli_command(original_command_name, existing_command_names)
SuggestCliCommand ==
    /\ fn_pc = "called"
    /\ suggestion' = suggest_cli_command(original_command_name, existing_command_names)
    /\ fn_pc' = "returned"
    /\ UNCHANGED << router_vars, split_vars, config_vars, original_command_name,
                   existing_command_names >>

Rum == << "r", "u", "m" >>
Ruin == << "r", "u", "i", "n" >>
Rug == << "r", "u", "g" >>
Build == << "b", "u", "i", "l", "d" >>
Buid == << "b", "u", "i", "d" >>
Rn == << "r", "n" >>
Xyz == << "x", "y", "z" >>

\* the names typed and the existing names
TypedNames == { Run, Buid, Rn, Xyz }

ExistingNames == { Run, Rum, Ruin, Rug, Build }

\* _suggest_cli_command on a typed name and any list of distinct existing names
InitSuggest ==
    /\ NoRouter
    /\ fn_pc = "called"
    /\ SplitIdle
    /\ original_command_name \in TypedNames
    /\ existing_command_names \in { l \in SeqsOf(ExistingNames, 0, MaxNames) :
                                      \A i, j \in 1..Len(l) : i # j => l[i] # l[j] }
    /\ suggestion = << >>
    /\ ConfigIdle

SpecSuggest == InitSuggest /\ [][SuggestCliCommand]_vars

----------------------------------------------------------------------------
(* _config_file_callback and _validate_config_file *)

Env == << "e", "n", "v" >>
Pipeline == << "p", "i", "p", "e", "l", "i", "n", "e" >>
ConfigParam == << "c", "o", "n", "f", "i", "g" >>
BogusKey == << "b", "o", "g", "u", "s", "_", "k", "e", "y" >>

\* [click_arg.name for click_arg in run.params]: a run command whose
\* parameters are env and pipeline, and the config option itself
RunParams == << Env, Pipeline, ConfigParam >>

\* run_args.remove("config"): the list without the first item equal to x
RemoveFirst(l, x) ==
    LET hits == { i \in 1..Len(l) : l[i] = x }
        k == CHOOSE i \in hits : \A j \in hits : i <= j
    IN  SubSeq(l, 1, k - 1) \o SubSeq(l, k + 1, Len(l))

run_args == RemoveFirst(RunParams, ConfigParam)

\* the backquote character, which a TLA+ string cannot hold
Backquote == "bq"

\* the message up to the key, "Key " and a backquote
KeyMessageHead ==
    << "K", "e", "y", " ", Backquote >>

\* the message after the key, a backquote and " in provided configuration is not valid. "
KeyMessageTail ==
    << Backquote, " ", "i", "n", " ", "p", "r", "o", "v", "i", "d", "e", "d",
       " ", "c", "o", "n", "f", "i", "g", "u", "r", "a", "t", "i",
       "o", "n", " ", "i", "s", " ", "n", "o", "t", " ", "v", "a",
       "l", "i", "d", ".", " " >>

\* _validate_config_file(key): the exception it raises, NoException when the
\* key is one of run_args
validate_config_file(key) ==
    IF key \in Range(run_args) THEN NoException
    ELSE [ type |-> "KedroCliError",
           message |-> KeyMessageHead \o key \o KeyMessageTail
                           \o suggest_cli_command(key, run_args) ]

\* the place in the section of the first key that _validate_config_file
\* rejects, 0 when the loop "for key, value in config.items()" ends
FirstRejected(items) ==
    LET bad == { i \in 1..Len(items) : validate_config_file(items[i][1]).type # "none" }
    IN  IF bad = {} THEN 0 ELSE CHOOSE i \in bad : \A j \in bad : i <= j

\* dict.update(config) on the items of a mapping
Update(dm_items, items) ==
    [ k \in DOMAIN dm_items \cup { items[i][1] : i \in 1..Len(items) } |->
        IF \E i \in 1..Len(items) : items[i][1] = k
        THEN items[CHOOSE i \in 1..Len(items) : items[i][1] = k][2]
        ELSE dm_items[k] ]

\* a faulty variant of DefaultsOnError: the keys before the rejected one are
\* installed
DefaultsOnErrorPartial(dm_items, items, rejected) ==
    Update(dm_items, SubSeq(items, 1, rejected - 1))

\* the items of ctx.default_map when the validation loop raises at the place
\* rejected: ctx.default_map.update(config) is after the loop
DefaultsOnError(dm_items, items, rejected) == dm_items

\* a call of _config_file_callback(ctx, param, value).  ctx.default_map is
\* first replaced by {} when it is None (or empty); the loop variable value
\* shadows the argument, so a section with items returns its last value.
ConfigFileCallback ==
    /\ fn_pc = "called"
    /\ LET dm == [ none |-> FALSE, items |-> default_map.items ]
           items == config_file.items
           rejected == FirstRejected(items)
       IN  IF value = ""
           THEN /\ default_map' = dm
                /\ raised' = NoException
                /\ returned' = value
                /\ fn_pc' = "returned"
                /\ UNCHANGED verbose_exists
           ELSE IF ~config_file.has_section
           THEN /\ default_map' = dm
                /\ raised' = [ type |-> "KeyError", message |-> << >> ]
                /\ fn_pc' = "raised"
                /\ UNCHANGED << returned, verbose_exists >>
           ELSE IF rejected # 0
           THEN /\ default_map' = [ dm EXCEPT !.items = DefaultsOnError(dm.items, items, rejected) ]
                /\ raised' = validate_config_file(items[rejected][1])
                /\ verbose_exists' = FALSE
                /\ fn_pc' = "raised"
                /\ UNCHANGED returned
           ELSE /\ default_map' = [ dm EXCEPT !.items = Update(dm.items, items) ]
                /\ raised' = NoException
                /\ returned' = IF items = << >> THEN value ELSE items[Len(items)][2]
                /\ fn_pc' = "returned"
                /\ UNCHANGED verbose_exists
    /\ UNCHANGED << router_vars, split_vars, suggest_vars, default_map0, value, config_file >>

ConfigKeys == { Env, Pipeline, ConfigParam, BogusKey }

ConfigValues == { "prod", "dev" }

\* ctx.default_map before the call: None, empty, or defaults set earlier
DefaultMaps ==
    { [ none |-> TRUE, items |-> << >> ],
      [ none |-> FALSE, items |-> << >> ],
      [ none |-> FALSE, items |-> [ k \in { Env } |-> "base" ] ],
      [ none |-> FALSE, items |-> [ k \in { Env, Pipeline } |-> "base" ] ] }

\* _config_file_callback with or without a file, the file with or without
\* the command's section, the section with any distinct keys
InitConfig ==
    /\ NoRouter
    /\ fn_pc = "called"
    /\ SplitIdle
    /\ SuggestIdle
    /\ default_map \in DefaultMaps
    /\ default_map0 = default_map
    /\ value \in { "", "config.yml" }
    /\ \E has \in BOOLEAN :
          \E items \in { l \in SeqsOf(ConfigKeys \X ConfigValues, 0, MaxKeys) :
                           \A i, j \in 1..Len(l) : i # j => l[i][1] # l[j][1] } :
              /\ (~has \/ value = "") => items = << >>
              /\ config_file = [ has_section |-> has, items |-> items ]
    /\ raised = NoException
    /\ returned = ""
    /\ verbose_exists = TRUE

SpecConfig == InitConfig /\ [][ConfigFileCallback]_vars

----------------------------------------------------------------------------
(* The claims *)

\* the merged collections as _dedupe_commands receives them
InputColls == Concat(MergedPerTitle(args_groups, group0))

\* collection c of the input defines the command name
Defines(c, name) ==
    \E i \in 1..Len(InputColls[c].sources) : name \in group0[InputColls[c].sources[i]].commands

\* the group whose command the input collection c gives for the name: its last
\* constituent that has it
OwnerIn(c, name) ==
    LET srcs == InputColls[c].sources
        k == CHOOSE i \in 1..Len(srcs) :
                 /\ name \in group0[srcs[i]].commands
                 /\ \A j \in (i + 1)..Len(srcs) : name \notin group0[srcs[j]].commands
    IN  srcs[k]

LastDefining(name) ==
    CHOOSE c \in 1..Len(InputColls) :
        Defines(c, name) /\ \A d \in (c + 1)..Len(InputColls) : ~Defines(d, name)

Resolve(name) == get_command(sources, coll, group, lazy_groups, name)

\* the group objects that hold the name, each with its place in the router's
\* sources (place 0 in a source that is a plugin's group)
Holders(name) ==
    UNION { IF sources[i].kind = "collection"
            THEN { << i, j >> : j \in { k \in 1..Len(coll[sources[i].id].sources) :
                                          name \in group[coll[sources[i].id].sources[k]].commands } }
            ELSE IF sources[i].kind = "plugin" /\ name \in lazy_groups[sources[i].id].commands
            THEN { << i, 0 >> }
            ELSE {} : i \in 1..Len(sources) }

\* the distinct group objects that hold the name
HolderObjects(name) ==
    { IF h[2] = 0 THEN << "plugin", sources[h[1]].id >>
      ELSE << "group", coll[sources[h[1]].id].sources[h[2]] >> : h \in Holders(name) }

\* C1: a lazy handle whose load failed leaves nothing in the router's sources
\* and the call goes on without an unhandled error.
C1_FailedLoadIsSkipped ==
    (\E k \in 1..Len(loadLog) : ~lazy_groups[loadLog[k].idx].ok)
        => /\ pc # "crashed"
           /\ \A i \in 1..Len(sources) : sources[i].kind # "none"

\* C2: once the router is constructed, a name that more than one source defines
\* resolves to the command of the last source that defines it, and every
\* command of the last source is still there.
C2_LastSourceWins ==
    pc = "ready" =>
        /\ \A name \in CmdNames :
              Cardinality({ c \in 1..Len(InputColls) : Defines(c, name) }) > 1
                  => Resolve(name) = [ owner |-> "group",
                                       id |-> OwnerIn(LastDefining(name), name),
                                       name |-> name ]
        /\ \A name \in CmdNames :
              Defines(Len(InputColls), name)
                  => name \in group[OwnerIn(Len(InputColls), name)].commands

\* C3: right after construction no command name is held by more than one
\* surviving group, over all sources of the router.
C3_NoNameTwice ==
    pc = "ready" => \A name \in CmdNames : Cardinality(Holders(name)) <= 1

C3_Witness ==
    /\ pc = "ready"
    /\ \E name \in CmdNames :
          /\ Cardinality({ x \in DOMAIN group0 : name \in group0[x].commands }) >= 2
          /\ Cardinality(Holders(name)) = 1

\* C9: _dedupe_commands applied to its own output changes no group's commands
\* and no collection's list of groups.
C9_DedupeIdempotent ==
    pc = "ready" =>
        LET again == dedupe_commands([ i \in 1..Len(coll) |-> i ], coll, group)
        IN  /\ \A x \in DOMAIN group : again.group[x].commands = group[x].commands
            /\ \A c \in 1..Len(coll) : again.coll[c].sources = coll[c].sources

C9_Witness ==
    /\ pc = "ready"
    /\ \E x \in DOMAIN group : group[x].commands # group0[x].commands /\ group[x].commands # {}
    /\ \E c \in 1..Len(coll) : Len(coll[c].sources) >= 2


\* main was called with a command name and went into _load_plugins
InResolution == args.kind = "list" /\ args.argv # << >> /\ ep_idx >= 1

\* the lazy handles whose name contains args[0]
Matching == { i \in 1..Len(lazy_groups) : IsSubstring(args.argv[1], lazy_groups[i].name) }

FirstMatching == CHOOSE i \in Matching : \A j \in Matching : i <= j

\* the loads of the current call that the loop over all handles made
FallbackLoads == SelectSeq(loadLog, LAMBDA e : e.phase = "all")

\* C4: within one process load is called at most once on each lazy handle.
C4_LoadedAtMostOnce ==
    \A i \in 1..Len(lazy_groups) : attempts[i] <= 1

\* C5: when some plugin name contains args[0], the first such plugin is the
\* first handle loaded, and when that load makes args[0] a listed command no
\* other handle is loaded in that call.
C5_PartialMatchFirst ==
    (InResolution /\ Matching # {}) =>
        /\ loadLog # << >>
        /\ loadLog[1] = [ phase |-> "partial", idx |-> FirstMatching, listed |-> FALSE ]
        /\ args.argv[1] \in lazy_groups[FirstMatching].commands => Len(loadLog) = 1

C5_Witness ==
    /\ InResolution
    /\ pc = "dispatched"
    /\ Cardinality(Matching) >= 2
    /\ Len(loadLog) = 1
    /\ resolved = [ owner |-> "plugin", id |-> FirstMatching, name |-> args.argv[1] ]

\* the scenario of C6: no eager command, P1 "kedro-viz" fails to load, P2
\* "kedro-docker" exposes "docker-build", and "docker-build" is invoked
Scenario6 ==
    /\ pc \notin { "new", "init_error" }
    /\ \A x \in DOMAIN group0 : group0[x].commands = {}
    /\ lazy_groups = << [ name |-> KedroViz, ok |-> FALSE, commands |-> {} ],
                        [ name |-> KedroDocker, ok |-> TRUE, commands |-> { DockerBuild } ] >>
    /\ args = [ kind |-> "list", argv |-> << DockerBuild >> ]

\* C6 as stated: in the scenario P2 is loaded through the partial match and
\* P1's load is never attempted.
C6_LoadsP2Only ==
    Scenario6 =>
        /\ attempts[1] = 0
        /\ loadLog # << >> => loadLog[1] = [ phase |-> "partial", idx |-> 2, listed |-> FALSE ]

\* C6 as the code has it: "docker-build" is in neither plugin name, so no load
\* is made by the partial match, and the first load attempted is P1's, by the
\* loop over all handles.
C6_NoPartialMatch ==
    (Scenario6 /\ ep_idx >= 1) =>
        /\ \A k \in 1..Len(loadLog) : loadLog[k].phase = "all"
        /\ loadLog # << >> => loadLog[1].idx = 1
        /\ pc # "load_all" => loadLog # << >>

C6_Witness ==
    /\ Scenario6
    /\ loadLog = << [ phase |-> "all", idx |-> 1, listed |-> FALSE ] >>
    /\ attempts = << 1, 0 >>

\* C7 as the code has it: the loop over all handles loads them one at a time
\* in the order of the mapping, and only while args[0] is not a listed
\* command; a handle after the point where it stops is not loaded by the loop
\* in that call.
C7_FallbackInOrder ==
    (args.kind = "list" /\ args.argv # << >>) =>
        /\ \A k \in 1..Len(FallbackLoads) :
              FallbackLoads[k].idx = k /\ ~FallbackLoads[k].listed
        /\ Len(FallbackLoads) = (IF ep_idx = 0 THEN 0 ELSE ep_idx - 1)

C7_Witness ==
    /\ InResolution
    /\ pc = "dispatched"
    /\ Len(FallbackLoads) >= 1
    /\ Len(FallbackLoads) < Len(lazy_groups)
    /\ resolved.owner = "plugin"

\* C7 as stated: once the loop has stopped because args[0] is a listed
\* command, no handle after that point has had a load attempted in that call.
C7_LaterHandlesUntouched ==
    (InResolution /\ pc \in { "super_main", "dispatched" } /\ FallbackLoads # << >>) =>
        \A k \in 1..Len(loadLog) : loadLog[k].idx <= Len(FallbackLoads)

\* C8: in every state reached through plugin loads no command name is held
\* by more than one group of the router's sources.
C8_NoNameTwiceAfterLoads ==
    pc \notin { "new", "init_error" } =>
        \A name \in CmdNames : Cardinality(HolderObjects(name)) <= 1

\* the groups of a name listed under title t, and their non-empty helps
Constituents(t, nm) ==
    SelectSeq(args_groups[t].cli_list, LAMBDA x : group0[x].name = nm)

ConstituentHelps(t, nm) ==
    LET with == SelectSeq(Constituents(t, nm), LAMBDA x : group0[x].help # "")
    IN  [ i \in 1..Len(with) |-> group0[with[i]].help ]

RECURSIVE JoinedBy(_, _)
JoinedBy(sep, hs) ==
    IF hs = << >> THEN ""
    ELSE IF Len(hs) = 1 THEN hs[1]
    ELSE JoinedBy(sep, SubSeq(hs, 1, Len(hs) - 1)) \o sep \o hs[Len(hs)]

\* the merged collections of a name under title t
MergedOf(t, nm) == { c \in Range(groups[t].colls) : coll[c].name = nm }

\* C10 as stated: the groups of one name give a single group whose help is
\* the non-empty helps in order, joined by a single newline.
C10_HelpJoinedByNewline ==
    pc = "ready" =>
        \A t \in 1..Len(args_groups) : \A nm \in GroupNames :
            Constituents(t, nm) # << >> =>
                /\ Cardinality(MergedOf(t, nm)) = 1
                /\ \A c \in MergedOf(t, nm) :
                      coll[c].help = JoinedBy("\n", ConstituentHelps(t, nm))

\* C10 as the code has it: the helps are joined by a blank line, "H1" and
\* "H2" give "H1\n\nH2".
C10_HelpJoinedByBlankLine ==
    pc = "ready" =>
        \A t \in 1..Len(args_groups) : \A nm \in GroupNames :
            Constituents(t, nm) # << >> =>
                /\ Cardinality(MergedOf(t, nm)) = 1
                /\ \A c \in MergedOf(t, nm) :
                      /\ coll[c].help = JoinedBy("\n\n", ConstituentHelps(t, nm))
                      /\ ConstituentHelps(t, nm) = << "H1", "H2" >>
                            => coll[c].help = "H1\n\nH2"

C10_Witness ==
    /\ pc = "ready"
    /\ \E t \in 1..Len(args_groups) :
          /\ Len(Constituents(t, "project")) = 2
          /\ ConstituentHelps(t, "project") = << "H1", "H2" >>
          /\ \E c \in MergedOf(t, "project") : coll[c].help = "H1\n\nH2"


\* the command names format_commands writes, over all its sections
Rendered ==
    LET secs == format_commands(groups, coll, group)
    IN  UNION { secs[i].commands : i \in 1..Len(secs) }

\* C11: a call ends in the usage error only after a load was attempted on
\* every lazy handle and args[0] is still not listed, and a call that names a
\* command ends in dispatch or in that usage error, never in an unhandled
\* error.
C11_UsageErrorAfterAllLoads ==
    /\ pc = "usage_error" =>
          /\ \A i \in 1..Len(lazy_groups) : attempts[i] >= 1
          /\ args.kind = "list" => args.argv[1] \notin Listed(sources)
    /\ (args.kind = "list" /\ args.argv # << >>) => pc # "crashed"

\* C15: with an empty argv main attempts no plugin load and raises no error
\* of its own before it delegates to super().main.
C15_EmptyArgvDelegates ==
    (args.kind = "list" /\ args.argv = << >> /\ pc # "ready") =>
        /\ pc \in { "super_main", "help" }
        /\ loadLog = << >>

\* C16: when args[0] is a command of the current sources, main goes straight
\* to super().main: no load is attempted and the sources are as they were.
C16_ListedCommandLoadsNothing ==
    [][ ( /\ pc = "ready"
          /\ pc' # "ready"
          /\ args'.kind = "list"
          /\ args'.argv # << >>
          /\ args'.argv[1] \in Listed(sources) )
        => ( /\ pc' = "super_main"
             /\ sources' = sources
             /\ attempts' = attempts
             /\ loadLog' = << >> ) ]_vars

C16_Witness ==
    /\ pc = "dispatched"
    /\ args.kind = "list"
    /\ ep_idx = 0
    /\ lazy_groups # << >>
    /\ \A i \in 1..Len(lazy_groups) : attempts[i] = 0
    /\ resolved.owner = "group"
    /\ Len(sources) = Len(coll)

\* C20: in every state of the router every command name that list_commands
\* returns is written by format_commands under some section.
C20_ListedIsRendered ==
    (pc \notin { "new", "init_error" } /\ ~ListCommandsRaises(sources)) =>
        Listed(sources) \subseteq Rendered


\* the command names of merged collection c after construction, and the
\* names its constituents had when they were listed
Available(c) == SourceCommands([ kind |-> "collection", id |-> c ], coll, group, << >>)

UnionOfConstituents(c) ==
    UNION { group0[x].commands : x \in Range(InputColls[c].sources) }

\* two constituents of the input collection c define the name
DefinedTwice(c, name) ==
    \E i, j \in 1..Len(InputColls[c].sources) :
        /\ i < j
        /\ name \in group0[InputColls[c].sources[i]].commands
        /\ name \in group0[InputColls[c].sources[j]].commands

\* get_command of the merged collection c alone
ResolvedIn(c, name) ==
    get_command(<< [ kind |-> "collection", id |-> c ] >>, coll, group, << >>, name)

\* C17 as stated: after construction a merged group has the union of its
\* constituents' commands, and a name that two constituents define is kept
\* and resolved as the later constituent's command.
C17_UnionLaterWins ==
    pc = "ready" =>
        \A c \in 1..Len(coll) :
            /\ Available(c) = UnionOfConstituents(c)
            /\ \A name \in CmdNames :
                  DefinedTwice(c, name)
                      => ResolvedIn(c, name) = [ owner |-> "group", id |-> OwnerIn(c, name),
                                                 name |-> name ]

\* C17 as the code has it: a merged group has a subset of the union (what a
\* later-visited group defines is removed), and a name that two constituents
\* define is, if the group still has it, the later constituent's command and
\* held by no other group of the collection.
C17_SubsetLaterWins ==
    pc = "ready" =>
        \A c \in 1..Len(coll) :
            /\ Available(c) \subseteq UnionOfConstituents(c)
            /\ \A name \in CmdNames :
                  (DefinedTwice(c, name) /\ name \in Available(c))
                      => /\ ResolvedIn(c, name) = [ owner |-> "group", id |-> OwnerIn(c, name),
                                                    name |-> name ]
                         /\ \A j \in 1..Len(coll[c].sources) :
                               name \in group[coll[c].sources[j]].commands
                                   => coll[c].sources[j] = OwnerIn(c, name)

C17_Witness ==
    /\ pc = "ready"
    /\ \E c \in 1..Len(coll) :
          /\ Len(InputColls[c].sources) = 2
          /\ InputColls[c].sources[1] # InputColls[c].sources[2]
          /\ group0[InputColls[c].sources[1]].commands = { Run, Viz }
          /\ group0[InputColls[c].sources[2]].commands = { Run }
          /\ Available(c) = { Run, Viz }
          /\ ResolvedIn(c, Run).id = InputColls[c].sources[2]
          /\ ResolvedIn(c, Viz).id = InputColls[c].sources[1]

\* the place in cli_list of the first group of the name
FirstOfName(cli_list, nm) ==
    CHOOSE i \in 1..Len(cli_list) :
        /\ group0[cli_list[i]].name = nm
        /\ \A j \in 1..(i - 1) : group0[cli_list[j]].name # nm

\* C18: _merge_same_name_collections returns one merged group per distinct
\* name of its input, in the order the names are first seen, each with the
\* callback and params of the first group of its name.
C18_OnePerNameFirstSeen ==
    pc = "ready" =>
        \A t \in 1..Len(args_groups) :
            LET cli_list == args_groups[t].cli_list
                merged == groups[t].colls
            IN  /\ { coll[merged[i]].name : i \in 1..Len(merged) }
                       = { group0[x].name : x \in Range(cli_list) }
                /\ \A i, j \in 1..Len(merged) :
                      i < j => /\ coll[merged[i]].name # coll[merged[j]].name
                               /\ FirstOfName(cli_list, coll[merged[i]].name)
                                     < FirstOfName(cli_list, coll[merged[j]].name)
                /\ \A i \in 1..Len(merged) :
                      coll[merged[i]].callback
                          = cli_list[FirstOfName(cli_list, coll[merged[i]].name)]

C18_Witness ==
    /\ pc = "ready"
    /\ \E t \in 1..Len(args_groups) :
          LET cli_list == args_groups[t].cli_list
              merged == groups[t].colls
          IN  /\ Len(cli_list) = 3
              /\ [ i \in 1..3 |-> group0[cli_list[i]].name ] = << "project", "cli", "project" >>
              /\ cli_list[1] # cli_list[3]
              /\ [ i \in 1..Len(merged) |-> coll[merged[i]].name ] = << "project", "cli" >>
              /\ coll[merged[1]].callback = cli_list[1]

RECURSIVE IsSubseq(_, _)
\* s is t with some of its items left out
IsSubseq(s, t) ==
    IF s = << >> THEN TRUE
    ELSE IF t = << >> THEN FALSE
    ELSE IF Head(s) = Head(t) THEN IsSubseq(Tail(s), Tail(t))
    ELSE IsSubseq(s, Tail(t))

\* the sections format_commands writes for merged collection c
SectionsOf(c) ==
    LET secs == format_commands(groups, coll, group)
    IN  { i \in 1..Len(secs) :
            /\ secs[i].name = coll[c].name
            /\ \E t \in 1..Len(groups) :
                  c \in Range(groups[t].colls) /\ secs[i].title = groups[t].title }

\* C19: after deduplication no source has a group without commands, the groups
\* a source keeps are in their listed order, and a source left without groups
\* is still one of the router's sources but gives no command to list_commands
\* and no section to format_commands.
C19_NoEmptyGroupKept ==
    pc = "ready" =>
        /\ Len(sources) = Len(InputColls)
        /\ \A c \in 1..Len(coll) :
              /\ sources[c] = [ kind |-> "collection", id |-> c ]
              /\ \A j \in 1..Len(coll[c].sources) : group[coll[c].sources[j]].commands # {}
              /\ IsSubseq(coll[c].sources, InputColls[c].sources)
              /\ coll[c].sources = << >> => Available(c) = {} /\ SectionsOf(c) = {}

C19_Witness ==
    /\ pc = "ready"
    /\ \E c, d \in 1..Len(coll) :
          /\ InputColls[c].sources # << >>
          /\ coll[c].sources = << >>
          /\ sources[c].id = c
          /\ coll[d].sources # << >>
          /\ SectionsOf(d) # {}
          /\ SectionsOf(c) = {}


\* the places of str that hold a comma outside every bracket
DepthZeroCommas(str) ==
    { i \in 1..Len(str) :
        /\ str[i] = ","
        /\ Cardinality({ j \in 1..i : str[j] = "[" })
              = Cardinality({ j \in 1..i : str[j] = "]" }) }

\* every "]" of str closes a "[" before it and every "[" is closed
WellBracketed(str) ==
    /\ \A i \in 1..Len(str) :
          Cardinality({ j \in 1..i : str[j] = "]" }) <= Cardinality({ j \in 1..i : str[j] = "[" })
    /\ Cardinality({ j \in 1..Len(str) : str[j] = "]" })
          = Cardinality({ j \in 1..Len(str) : str[j] = "[" })

\* C14: split_node_names splits at exactly the commas outside square brackets:
\* no item it returns holds a comma at bracket depth zero, no item is cut
\* inside a bracket, and "f([a,b]) -> [c],g" gives "f([a,b]) -> [c]" and "g".
C14_SplitsAtEveryOuterComma ==
    fn_pc = "returned" =>
        /\ \A k \in 1..Len(result) : DepthZeroCommas(result[k]) = {}
        /\ WellBracketed(to_split) => \A k \in 1..Len(result) : WellBracketed(result[k])
        /\ to_split = DefaultNodeNames
              => result = << SubSeq(DefaultNodeNames, 1, 15), << "g" >> >>


RECURSIVE SplitLines(_, _)
\* the lines of a text, without their "\n"
SplitLines(text, line) ==
    IF text = << >> THEN << line >>
    ELSE IF Head(text) = "\n" THEN << line >> \o SplitLines(Tail(text), << >>)
    ELSE SplitLines(Tail(text), Append(line, Head(text)))

\* the existing names that are close to the typed one
CloseNames ==
    { existing_command_names[i] : i \in { k \in 1..Len(existing_command_names) :
        FracGeq(Ratio(existing_command_names[k], original_command_name), CUTOFF) } }

\* C12: the suggestion is empty when no name is close; otherwise it is a
\* header line, "Did you mean this?" for one match and "Did you mean one of
\* these?" for 2 or 3, followed by at most 3 candidates, each on a line of
\* its own and indented.
C12_CandidatesOnOwnLines ==
    fn_pc = "returned" =>
        LET n == IF Cardinality(CloseNames) < 3 THEN Cardinality(CloseNames) ELSE 3
            lines == SplitLines(suggestion, << >>)
        IN  /\ n = 0 => suggestion = << >>
            /\ n > 0 =>
                  /\ Len(lines) = 3 + n
                  /\ lines[1] = << >> /\ lines[2] = << >>
                  /\ lines[3] = IF n = 1 THEN SubSeq(HeaderOne, 3, Len(HeaderOne))
                                ELSE SubSeq(HeaderMany, 3, Len(HeaderMany) - 1)
                  /\ \A k \in 4..(3 + n) :
                        \E c \in CloseNames : lines[k] = Prefix \o c
                  /\ \A j, k \in 4..(3 + n) : j # k => lines[j] # lines[k]


\* the keys of the file's section, and those that are no parameter of run
SectionKeys == { config_file.items[i][1] : i \in 1..Len(config_file.items) }

NotAccepted == SectionKeys \ { Env, Pipeline }

\* the call read the command's section of a config file
SectionRead == fn_pc \in { "returned", "raised" } /\ value # "" /\ config_file.has_section

\* C13: when a key of the section is no accepted parameter name, the callback
\* raises a validation error that names such a key and the default map has
\* the items it had before the call (nothing of the file is installed, valid
\* keys before the bad one neither); when every key is accepted, every item
\* of the section is installed as a default.  (The default map is compared
\* by its items: the callback replaces a default map of None by an empty one.)
C13_AllOrNothing ==
    SectionRead =>
        /\ NotAccepted # {} =>
              /\ fn_pc = "raised"
              /\ raised.type = "KedroCliError"
              /\ \E k \in NotAccepted : IsSubstring(<< Backquote >> \o k \o << Backquote >>, raised.message)
              /\ default_map.items = default_map0.items
        /\ NotAccepted = {} =>
              /\ fn_pc = "returned"
              /\ raised.type = "none"
              /\ \A i \in 1..Len(config_file.items) :
                    /\ config_file.items[i][1] \in DOMAIN default_map.items
                    /\ default_map.items[config_file.items[i][1]] = config_file.items[i][2]
              /\ \A k \in DOMAIN default_map0.items \ SectionKeys :
                    /\ k \in DOMAIN default_map.items
                    /\ default_map.items[k] = default_map0.items[k]
              /\ DOMAIN default_map.items = DOMAIN default_map0.items \cup SectionKeys

C13_Witness ==
    /\ SectionRead
    /\ fn_pc = "raised"
    /\ Len(config_file.items) >= 2
    /\ config_file.items[1] = << Env, "prod" >>
    /\ config_file.items[2][1] = BogusKey
    /\ default_map0.items = [ k \in { Env } |-> "base" ]
    /\ default_map.items = default_map0.items


\* the command names of every group given to the constructor, before
\* _dedupe_commands
InputNames ==
    UNION { group0[x].commands :
              x \in UNION { Range(args_groups[t].cli_list) : t \in 1..Len(args_groups) } }

\* C21: deduplication loses no command name: the names listed after
\* _dedupe_commands are the union of the names of all input groups, also when
\* the same group object is given in more than one place.
C21_NoNameLost ==
    pc = "ready" => Listed(sources) = InputNames


====
